---------------------------- MODULE Spec2Model ----------------------------
(***************************************************************************)
(* Model of runModify (lib/git/modify_action.js): the handler of the       *)
(* "modify" event.  One run is a sequential chain of suspending steps;     *)
(* every yield of the generator is one action of the model.  An external   *)
(* operation (GU.*, fse.*, RD.runJob, process.chdir, cbk) either returns   *)
(* or throws; which of the two is a nondeterministic choice.               *)
(*                                                                         *)
(* The Puppetfile is modelled as the sequence of its module entries; an    *)
(* entry is the triple (mod, :git, :ref).  A repository URL is a sequence  *)
(* of one-character strings so that module_regex, which embeds repoUrl     *)
(* unescaped and unanchored on the left, is matched the way the regular    *)
(* expression engine matches it.                                           *)
(***************************************************************************)
EXTENDS Integers, Sequences, FiniteSets, TLC

VARIABLES
    pc,                    \* the statement the run is suspended at / about to execute
    branchName,            \* eventData.branch (line 36)
    envDefault,            \* process.env.PUPPETFILE_GIT_DEFAULT_BRANCH ("" when unset)
    repoUrl,               \* eventData.repourl (line 45)
    remoteBranch,          \* the target branch exists on the remote
    pfile,                 \* the Puppetfile of the workspace (what checkout leaves on disk)
    branchExist,           \* line 61
    mergedIn,              \* what GU.checkoutExisting returned (line 69)
    fullDeploymentNeeded,  \* line 30
    commitNeeded,          \* line 31
    content,               \* line 80
    new_content,           \* line 29
    moduleDefined,         \* line 82: index of the first matching entry, 0 for null
    rundeck_type,          \* rundeck_data.type (lines 150, 155)
    rd_job_status,         \* line 159: what RD.runJob returned ("none" before)
    err,                   \* the exception caught at line 170 ("none" before)
    thrown,                \* the exception that left the generator ("none" if none)
    cbkCalls,              \* the arguments cbk was called with, in order
    log,                   \* the external operations invoked so far, in order
    run,                   \* which run of the event this is: 1, or 2 for a rerun
    now,                   \* Date.now(): the clock of the process, in milliseconds
    runs                   \* the runs of the process: their state and their gitdir

vars == << pc, branchName, envDefault, repoUrl, remoteBranch, pfile, branchExist,
           mergedIn, fullDeploymentNeeded, commitNeeded, content, new_content,
           moduleDefined, rundeck_type, rd_job_status, err, thrown, cbkCalls,
           log, run, now, runs >>

-----------------------------------------------------------------------------
(* Bounds of the model *)

\* the largest number of module entries of the initial Puppetfile
MaxEntries == 2

\* the number of runs the process may have in progress at the same time
NumRuns == 2

\* the last millisecond of the clock
MaxClock == 3

-----------------------------------------------------------------------------
(* The inputs *)

moduleName == "mymod"

\* eventData.branch: the production sentinel, a feature branch, and a branch
\* whose name is a replacement pattern of String.prototype.replace
BranchNames == {"production", "feature", "$2"}

\* PUPPETFILE_GIT_DEFAULT_BRANCH: unset ("") or an override
EnvDefaults == {"", "master"}

\* the references an entry of the initial Puppetfile may carry: the production
\* sentinel, the override and the feature branch; whichever of them is not the
\* resolved target branch of the run is a stale reference
Refs == {"production", "master", "feature"}

\* repository URLs: "a.b", and two URLs of other modules: one that differs
\* from it only where "a.b" has the metacharacter ".", one that ends in it
UrlAB  == << "a", ".", "b" >>
UrlAxB == << "a", "x", "b" >>
UrlZAB == << "z", "a", ".", "b" >>
Urls == {UrlAB, UrlAxB, UrlZAB}

\* eventData.repourl
EventUrls == {UrlAB}

ModOf(url) == IF url = UrlAB THEN "mymod" ELSE "othermod"

Entries == { [mod |-> ModOf(u), git |-> u, ref |-> r] : u \in Urls, r \in Refs }

RECURSIVE SeqsUpTo(_, _)
SeqsUpTo(S, n) ==
    IF n = 0 THEN { << >> }
    ELSE LET shorter == SeqsUpTo(S, n - 1)
         IN  shorter \cup { Append(s, e) : s \in shorter, e \in S }

Manifests == SeqsUpTo(Entries, MaxEntries)

-----------------------------------------------------------------------------
(* Lines 36-47: the values derived from the event *)

defaultBranch == IF envDefault = "" THEN "production" ELSE envDefault

puppetfileBranchName ==
    IF branchName = "production" THEN defaultBranch ELSE branchName

\* module_regex, on one entry: repoUrl is the pattern, "." matches any
\* character, and nothing anchors the pattern on the left of the URL, so it
\* matches an entry whose URL ends in a string the pattern matches.
RegexMatchesUrl(pattern, url) ==
    /\ Len(pattern) <= Len(url)
    /\ \A i \in 1..Len(pattern) :
          LET c == url[Len(url) - Len(pattern) + i]
          IN  pattern[i] = "." \/ pattern[i] = c

module_regex(pattern, entry) == RegexMatchesUrl(pattern, entry.git)

\* module_regex.exec(content): the first match, 0 when there is none
RegexExec(pattern, text) ==
    IF \E i \in 1..Len(text) : module_regex(pattern, text[i])
    THEN CHOOSE i \in 1..Len(text) :
            /\ module_regex(pattern, text[i])
            /\ \A j \in 1..(i - 1) : ~ module_regex(pattern, text[j])
    ELSE 0

\* line 89: content + the new entry
AppendedContent(text, name, url, branch) ==
    Append(text, [mod |-> name, git |-> url, ref |-> branch])

\* line 108: the replacement string '$1'+branchName+'$3' is expanded by
\* replace; $1 and $3 put back what surrounds the reference, and a branch
\* name that reads $2 puts back the reference that was captured
ExpandReplacement(branch, captured) ==
    IF branch = "$2" THEN captured ELSE branch

\* the resolved branch name is written in place of the event's
ReplacedContent_resolved(pattern, text, branch) ==
    [ i \in 1..Len(text) |->
        IF module_regex(pattern, text[i])
        THEN [ text[i] EXCEPT !.ref = puppetfileBranchName ]
        ELSE text[i] ]

\* line 108: content.replace(module_regex, '$1'+branchName+'$3'); the regex
\* has the g flag, so every match is replaced
ReplacedContent(pattern, text, branch) ==
    [ i \in 1..Len(text) |->
        IF module_regex(pattern, text[i])
        THEN [ text[i] EXCEPT !.ref = ExpandReplacement(branch, text[i].ref) ]
        ELSE text[i] ]

\* the production sentinel is not looked at
RefNeedsUpdate_noSentinel(ref, target) == ref # target

\* line 105
RefNeedsUpdate(ref, target) == ref # target /\ ref # "production"

-----------------------------------------------------------------------------
(* The gates and the control flow of the try block *)

\* GU.branchExist (section 6, branchExists(name, workdir) -> bool): after the
\* fetch with pruning, the answer is the state of the remote
GU_branchExist(remote) == remote

\* GU.push (section 6): a push that returns leaves the branch on the remote
GU_push(remote) == TRUE

\* GU.checkoutExisting (section 6: true iff production-branch commits were
\* merged in during checkout): in the first run of an event either report is
\* possible; in a rerun with no change on the remotes in between, there is
\* nothing left to merge
GU_checkoutExistingReports(rn) == IF rn = 1 THEN BOOLEAN ELSE { FALSE }

\* GU.commit (section 6; section 4.1 step 4: for a new branch the commit is
\* mandatory regardless of manifest content): the commit may return whether
\* or not the Puppetfile of the workspace was changed
GU_commitMayReturn(changed) == TRUE

\* RD.runJob (section 6, runJob(request) -> status; section 7, "non-success
\* status"): the completion status of the job
RD_Statuses == { "succeeded", "failed" }

\* the merge report is assigned to both flags
CheckoutExistingFlags_both(merged, c) == [ full |-> merged, commit |-> merged ]

\* line 69: fullDeploymentNeeded = the report of GU.checkoutExisting;
\* commitNeeded (c) is left as it is
CheckoutExistingFlags(merged, c) == [ full |-> merged, commit |-> c ]

\* a new branch forces the full deployment only
CheckoutNewFlags_fullOnly == [ full |-> TRUE, commit |-> FALSE ]

\* line 76: fullDeploymentNeeded = commitNeeded = true
CheckoutNewFlags == [ full |-> TRUE, commit |-> TRUE ]

\* the commit is not gated
CommitGate_always(c) == TRUE

\* line 127
CommitGate(c) == c

\* the push is gated on commitNeeded alone
PushGate_commitOnly(c, f) == c

\* line 136
PushGate(c, f) == c \/ f

\* the two branches of the deployment type are swapped
DeployType_swapped(f) == IF f THEN "deploy_mod" ELSE "deploy_env"

\* lines 147-156
DeployType(f) == IF f THEN "deploy_env" ELSE "deploy_mod"

\* the push is left out
AfterCommit_noPush(c, f) == "runJob"

\* lines 136-159: what follows the commit step
AfterCommit(c, f) == IF PushGate(c, f) THEN "push" ELSE "runJob"

\* the commit is left out
AfterManifest_noCommit(c, f) == AfterCommit(c, f)

\* lines 127-159: what follows the manifest update
AfterManifest(c, f) == IF CommitGate(c) THEN "commit" ELSE AfterCommit(c, f)

\* a failed push is ignored and the job is launched
OnFailure_pushIgnored(step) == IF step = "push" THEN "runJob" ELSE "catch_chdir"

\* a failed commit is ignored and the run goes on to the push
OnFailure_commitIgnored(step) == IF step = "commit" THEN "push" ELSE "catch_chdir"

\* lines 49, 170: an exception thrown in the try block is caught
OnFailure(step) == "catch_chdir"

\* an exception thrown in the catch block leaves the generator
OnCatchFailure(step) == "thrown"

PipelineSteps == { "clone", "fetch", "branchExist", "checkoutExisting",
                   "checkoutNew", "readFile", "writeFile", "commit", "push",
                   "runJob" }

Call(op, ok) == log' = Append(log, [op |-> op, ok |-> ok])

\* a statement of the try block throws
Throw(op) ==
    /\ Call(op, FALSE)
    /\ err' = op
    /\ pc' = OnFailure(op)

-----------------------------------------------------------------------------
Init ==
    /\ pc = "clone"
    /\ branchName \in BranchNames
    /\ envDefault \in EnvDefaults
    /\ repoUrl \in EventUrls
    /\ remoteBranch \in BOOLEAN
    /\ pfile \in Manifests
    /\ branchExist = FALSE
    /\ mergedIn = FALSE
    /\ fullDeploymentNeeded = FALSE
    /\ commitNeeded = FALSE
    /\ content = << >>
    /\ new_content = << >>
    /\ moduleDefined = 0
    /\ rundeck_type = "unset"
    /\ rd_job_status = "none"
    /\ err = "none"
    /\ thrown = "none"
    /\ cbkCalls = << >>
    /\ log = << >>
    /\ run = 1
    /\ now = 0
    /\ runs = << >>

\* line 54
Clone ==
    /\ pc = "clone"
    /\ \/ Call("clone", TRUE) /\ pc' = "fetch" /\ UNCHANGED err
       \/ Throw("clone")
    /\ UNCHANGED << run, now, runs, branchName, envDefault, repoUrl, remoteBranch, pfile,
                    branchExist, mergedIn, fullDeploymentNeeded, commitNeeded,
                    content, new_content, moduleDefined, rundeck_type,
                    rd_job_status, thrown, cbkCalls >>

\* line 57
Fetch ==
    /\ pc = "fetch"
    /\ \/ Call("fetch", TRUE) /\ pc' = "branchExist" /\ UNCHANGED err
       \/ Throw("fetch")
    /\ UNCHANGED << run, now, runs, branchName, envDefault, repoUrl, remoteBranch, pfile,
                    branchExist, mergedIn, fullDeploymentNeeded, commitNeeded,
                    content, new_content, moduleDefined, rundeck_type,
                    rd_job_status, thrown, cbkCalls >>

\* lines 61-63: GU.branchExist reports whether the remote has the branch
BranchExist ==
    /\ pc = "branchExist"
    /\ \/ /\ Call("branchExist", TRUE)
          /\ branchExist' = GU_branchExist(remoteBranch)
          /\ pc' = IF branchExist' THEN "checkoutExisting" ELSE "checkoutNew"
          /\ UNCHANGED err
       \/ Throw("branchExist") /\ UNCHANGED branchExist
    /\ UNCHANGED << run, now, runs, branchName, envDefault, repoUrl, remoteBranch, pfile,
                    mergedIn, fullDeploymentNeeded, commitNeeded,
                    content, new_content, moduleDefined, rundeck_type,
                    rd_job_status, thrown, cbkCalls >>

\* line 69
CheckoutExisting ==
    /\ pc = "checkoutExisting"
    /\ \/ \E merged \in GU_checkoutExistingReports(run) :
            /\ Call("checkoutExisting", TRUE)
            /\ mergedIn' = merged
            /\ fullDeploymentNeeded' =
                   CheckoutExistingFlags(merged, commitNeeded).full
            /\ commitNeeded' =
                   CheckoutExistingFlags(merged, commitNeeded).commit
            /\ pc' = "readFile"
            /\ UNCHANGED err
       \/ /\ Throw("checkoutExisting")
          /\ UNCHANGED << mergedIn, fullDeploymentNeeded, commitNeeded >>
    /\ UNCHANGED << run, now, runs, branchName, envDefault, repoUrl, remoteBranch, pfile,
                    branchExist, content, new_content,
                    moduleDefined, rundeck_type, rd_job_status, thrown, cbkCalls >>

\* lines 73-76
CheckoutNew ==
    /\ pc = "checkoutNew"
    /\ \/ /\ Call("checkoutNew", TRUE)
          /\ fullDeploymentNeeded' = CheckoutNewFlags.full
          /\ commitNeeded' = CheckoutNewFlags.commit
          /\ pc' = "readFile"
          /\ UNCHANGED err
       \/ /\ Throw("checkoutNew")
          /\ UNCHANGED << fullDeploymentNeeded, commitNeeded >>
    /\ UNCHANGED << run, now, runs, branchName, envDefault, repoUrl, remoteBranch, pfile,
                    branchExist, mergedIn, content, new_content, moduleDefined,
                    rundeck_type, rd_job_status, thrown, cbkCalls >>

\* lines 80-117: read the Puppetfile, look the module up and prepare the
\* update; the run suspends again at a writeFile, a commit, a push or runJob
ReadFile ==
    /\ pc = "readFile"
    /\ \/ /\ Call("readFile", TRUE)
          /\ content' = pfile
          /\ moduleDefined' = RegexExec(repoUrl, pfile)
          /\ IF moduleDefined' = 0
             THEN /\ new_content' = AppendedContent(pfile, moduleName, repoUrl, branchName)
                  /\ pc' = "writeFile"
             ELSE IF RefNeedsUpdate(pfile[moduleDefined'].ref, puppetfileBranchName)
             THEN /\ new_content' = ReplacedContent(repoUrl, pfile, branchName)
                  /\ pc' = "writeFile"
             ELSE /\ new_content' = new_content
                  /\ pc' = AfterManifest(commitNeeded, fullDeploymentNeeded)
          /\ UNCHANGED err
       \/ /\ Throw("readFile")
          /\ UNCHANGED << content, moduleDefined, new_content >>
    /\ UNCHANGED << run, now, runs, branchName, envDefault, repoUrl, remoteBranch, pfile,
                    branchExist, mergedIn, fullDeploymentNeeded, commitNeeded,
                    rundeck_type, rd_job_status, thrown, cbkCalls >>

\* lines 90-94 and 111-114
WriteFile ==
    /\ pc = "writeFile"
    /\ \/ /\ Call("writeFile", TRUE)
          /\ pfile' = new_content
          /\ commitNeeded' = TRUE
          /\ pc' = AfterManifest(TRUE, fullDeploymentNeeded)
          /\ UNCHANGED err
       \/ /\ Throw("writeFile")
          /\ UNCHANGED << pfile, commitNeeded >>
    /\ UNCHANGED << run, now, runs, branchName, envDefault, repoUrl, remoteBranch,
                    branchExist, mergedIn, fullDeploymentNeeded,
                    content, new_content, moduleDefined, rundeck_type,
                    rd_job_status, thrown, cbkCalls >>

\* lines 127-134
Commit ==
    /\ pc = "commit"
    /\ \/ /\ GU_commitMayReturn(pfile # content)
          /\ Call("commit", TRUE)
          /\ pc' = AfterCommit(commitNeeded, fullDeploymentNeeded)
          /\ UNCHANGED err
       \/ Throw("commit")
    /\ UNCHANGED << run, now, runs, branchName, envDefault, repoUrl, remoteBranch, pfile,
                    branchExist, mergedIn, fullDeploymentNeeded, commitNeeded,
                    content, new_content, moduleDefined, rundeck_type,
                    rd_job_status, thrown, cbkCalls >>

\* lines 136-141: a successful push leaves the branch on the remote
Push ==
    /\ pc = "push"
    /\ \/ /\ Call("push", TRUE)
          /\ remoteBranch' = GU_push(remoteBranch)
          /\ pc' = "runJob"
          /\ UNCHANGED err
       \/ Throw("push") /\ UNCHANGED remoteBranch
    /\ UNCHANGED << run, now, runs, branchName, envDefault, repoUrl, pfile,
                    branchExist, mergedIn, fullDeploymentNeeded, commitNeeded,
                    content, new_content, moduleDefined, rundeck_type,
                    rd_job_status, thrown, cbkCalls >>

\* lines 147-159
RunJob ==
    /\ pc = "runJob"
    /\ rundeck_type' = DeployType(fullDeploymentNeeded)
    /\ \/ \E status \in RD_Statuses :
             /\ Call("runJob", TRUE)
             /\ rd_job_status' = status
             /\ pc' = "remove"
             /\ UNCHANGED err
       \/ Throw("runJob") /\ UNCHANGED rd_job_status
    /\ UNCHANGED << run, now, runs, branchName, envDefault, repoUrl, remoteBranch, pfile,
                    branchExist, mergedIn, fullDeploymentNeeded, commitNeeded,
                    content, new_content, moduleDefined, thrown, cbkCalls >>

\* line 163: the removal is inside the try block
Remove ==
    /\ pc = "remove"
    /\ \/ Call("remove", TRUE) /\ pc' = "cbk" /\ UNCHANGED err
       \/ Throw("remove")
    /\ UNCHANGED << run, now, runs, branchName, envDefault, repoUrl, remoteBranch, pfile,
                    branchExist, mergedIn, fullDeploymentNeeded, commitNeeded,
                    content, new_content, moduleDefined, rundeck_type,
                    rd_job_status, thrown, cbkCalls >>

\* line 168: cbk(null), inside the try block as well
CbkSuccess ==
    /\ pc = "cbk"
    /\ cbkCalls' = Append(cbkCalls, "null")
    /\ \/ Call("cbk", TRUE) /\ pc' = "done" /\ UNCHANGED err
       \/ Throw("cbk")
    /\ UNCHANGED << run, now, runs, branchName, envDefault, repoUrl, remoteBranch, pfile,
                    branchExist, mergedIn, fullDeploymentNeeded, commitNeeded,
                    content, new_content, moduleDefined, rundeck_type,
                    rd_job_status, thrown >>

\* a statement of the catch block throws: nothing catches it
ThrowInCatch(op) ==
    /\ Call(op, FALSE)
    /\ thrown' = op
    /\ pc' = OnCatchFailure(op)

\* line 173
CatchChdir ==
    /\ pc = "catch_chdir"
    /\ \/ Call("chdir", TRUE) /\ pc' = "catch_remove" /\ UNCHANGED thrown
       \/ ThrowInCatch("chdir")
    /\ UNCHANGED << run, now, runs, branchName, envDefault, repoUrl, remoteBranch, pfile,
                    branchExist, mergedIn, fullDeploymentNeeded, commitNeeded,
                    content, new_content, moduleDefined, rundeck_type,
                    rd_job_status, err, cbkCalls >>

\* line 176
CatchRemove ==
    /\ pc = "catch_remove"
    /\ \/ Call("remove", TRUE) /\ pc' = "catch_cbk" /\ UNCHANGED thrown
       \/ ThrowInCatch("remove")
    /\ UNCHANGED << run, now, runs, branchName, envDefault, repoUrl, remoteBranch, pfile,
                    branchExist, mergedIn, fullDeploymentNeeded, commitNeeded,
                    content, new_content, moduleDefined, rundeck_type,
                    rd_job_status, err, cbkCalls >>

\* line 179: cbk(err)
CatchCbk ==
    /\ pc = "catch_cbk"
    /\ cbkCalls' = Append(cbkCalls, err)
    /\ \/ Call("cbk", TRUE) /\ pc' = "done" /\ UNCHANGED thrown
       \/ ThrowInCatch("cbk")
    /\ UNCHANGED << run, now, runs, branchName, envDefault, repoUrl, remoteBranch, pfile,
                    branchExist, mergedIn, fullDeploymentNeeded, commitNeeded,
                    content, new_content, moduleDefined, rundeck_type,
                    rd_job_status, err >>

Next ==
    \/ Clone
    \/ Fetch
    \/ BranchExist
    \/ CheckoutExisting
    \/ CheckoutNew
    \/ ReadFile
    \/ WriteFile
    \/ Commit
    \/ Push
    \/ RunJob
    \/ Remove
    \/ CbkSuccess
    \/ CatchChdir
    \/ CatchRemove
    \/ CatchCbk

Spec == Init /\ [][Next]_vars

-----------------------------------------------------------------------------
(* The same event run a second time, after a first run that reported        *)
(* success and with no change on the remotes in between: the remote has the *)
(* branch, and the checkout leaves the Puppetfile the first run left (what  *)
(* it read, or what it wrote, committed and pushed).                        *)

\* lines 25-47: the second run starts with fresh locals for the same event
Rerun ==
    /\ run = 1
    /\ pc = "done"
    /\ cbkCalls = << "null" >>
    /\ run' = 2
    /\ pc' = "clone"
    /\ branchExist' = FALSE
    /\ mergedIn' = FALSE
    /\ fullDeploymentNeeded' = FALSE
    /\ commitNeeded' = FALSE
    /\ content' = << >>
    /\ new_content' = << >>
    /\ moduleDefined' = 0
    /\ rundeck_type' = "unset"
    /\ rd_job_status' = "none"
    /\ err' = "none"
    /\ thrown' = "none"
    /\ cbkCalls' = << >>
    /\ log' = << >>
    /\ UNCHANGED << branchName, envDefault, repoUrl, remoteBranch, pfile,
                    now, runs >>

NextTwice ==
    \/ Clone
    \/ Fetch
    \/ BranchExist
    \/ CheckoutExisting
    \/ CheckoutNew
    \/ ReadFile
    \/ WriteFile
    \/ Commit
    \/ Push
    \/ RunJob
    \/ Remove
    \/ CbkSuccess
    \/ CatchChdir
    \/ CatchRemove
    \/ CatchCbk
    \/ Rerun

SpecTwice == Init /\ [][NextTwice]_vars

-----------------------------------------------------------------------------
(* Several runs in one process: the workspace of a run, lines 27-34.  Each   *)
(* run is started by the job queue; between two suspension points of a run  *)
(* any other run may be started or resumed, and the clock may advance.      *)

Runs == 1..NumRuns

\* the variables of the single run, which these actions leave alone
runVars == << pc, branchName, envDefault, repoUrl, remoteBranch, pfile,
              branchExist, mergedIn, fullDeploymentNeeded, commitNeeded,
              content, new_content, moduleDefined, rundeck_type,
              rd_job_status, err, thrown, cbkCalls, log, run >>

\* line 32: gitdir = '/var/tmp/puppetfile_repo_' + now; the directory is
\* named by the millisecond the run started in
GitDir(ms) == ms

InitRuns ==
    /\ pc = "clone"
    /\ branchName = "feature"
    /\ envDefault = ""
    /\ repoUrl = UrlAB
    /\ remoteBranch = TRUE
    /\ pfile = << >>
    /\ branchExist = FALSE
    /\ mergedIn = FALSE
    /\ fullDeploymentNeeded = FALSE
    /\ commitNeeded = FALSE
    /\ content = << >>
    /\ new_content = << >>
    /\ moduleDefined = 0
    /\ rundeck_type = "unset"
    /\ rd_job_status = "none"
    /\ err = "none"
    /\ thrown = "none"
    /\ cbkCalls = << >>
    /\ log = << >>
    /\ run = 1
    /\ now = 0
    /\ runs = [ r \in Runs |-> [ st |-> "idle", gitdir |-> GitDir(0) ] ]

\* the clock of the process advances
Tick ==
    /\ now < MaxClock
    /\ now' = now + 1
    /\ UNCHANGED << runs, runVars >>

\* lines 27-54: a run is started; it names its workspace and suspends at the
\* clone
StartRun(r) ==
    /\ runs[r].st = "idle"
    /\ runs' = [ runs EXCEPT ![r] = [ st |-> "started", gitdir |-> GitDir(now) ] ]
    /\ UNCHANGED << now, runVars >>

\* lines 54-159: the run works in its workspace
WorkRun(r) ==
    /\ runs[r].st = "started"
    /\ runs' = [ runs EXCEPT ![r].st = "working" ]
    /\ UNCHANGED << now, runVars >>

\* lines 163 and 176: the run removes its workspace and ends
RemoveRun(r) ==
    /\ runs[r].st \in { "started", "working" }
    /\ runs' = [ runs EXCEPT ![r].st = "ended" ]
    /\ UNCHANGED << now, runVars >>

NextRuns ==
    \/ Tick
    \/ \E r \in Runs : StartRun(r)
    \/ \E r \in Runs : WorkRun(r)
    \/ \E r \in Runs : RemoveRun(r)

SpecRuns == InitRuns /\ [][NextRuns]_vars

\* the run has a workspace and has not ended
InProgress(r) == runs[r].st \in { "started", "working" }

-----------------------------------------------------------------------------
(* Type correctness *)

Ops == PipelineSteps \cup { "remove", "cbk", "chdir" }

TypeOK ==
    /\ pc \in { "clone", "fetch", "branchExist", "checkoutExisting",
                "checkoutNew", "readFile", "writeFile", "commit", "push",
                "runJob", "remove", "cbk", "catch_chdir", "catch_remove",
                "catch_cbk", "done", "thrown" }
    /\ branchExist \in BOOLEAN
    /\ mergedIn \in BOOLEAN
    /\ fullDeploymentNeeded \in BOOLEAN
    /\ commitNeeded \in BOOLEAN
    /\ moduleDefined \in 0..Len(content)
    /\ rundeck_type \in { "unset", "deploy_env", "deploy_mod" }
    /\ rd_job_status \in RD_Statuses \cup { "none" }
    /\ run \in { 1, 2 }
    /\ err \in Ops \cup { "none" }
    /\ thrown \in Ops \cup { "none" }
    /\ \A i \in 1..Len(log) : log[i].op \in Ops /\ log[i].ok \in BOOLEAN

-----------------------------------------------------------------------------
(* What the log tells about the run *)

Invoked(op) == \E i \in 1..Len(log) : log[i].op = op

Succeeded(op) == \E i \in 1..Len(log) : log[i].op = op /\ log[i].ok

Count(op) == Cardinality({ i \in 1..Len(log) : log[i].op = op })

Ended == pc \in { "done", "thrown" }

\* the Puppetfile was written in this run
ManifestWritten == Succeeded("writeFile")

\* the Puppetfile was written in this run with a content that differs from
\* the content read
ManifestModified == Succeeded("writeFile") /\ pfile # content

\* GU.branchExist answered that the remote has no such branch
BranchMissing == Succeeded("branchExist") /\ ~ branchExist

\* the target branch was created by this run
BranchCreated == Succeeded("checkoutNew")

\* the commit gate and the push gate have been evaluated
GatesEvaluated ==
    \/ pc \in { "commit", "push", "runJob" }
    \/ Invoked("commit") \/ Invoked("push") \/ Invoked("runJob")

\* the push gate has been passed: the push ran, or was skipped
PastPushGate == pc = "runJob" \/ Invoked("runJob") \/ Invoked("push")

\* the text holds an entry of the repository
HasEntryFor(text, url) == \E i \in 1..Len(text) : text[i].git = url

\* the event branch is the production sentinel and an override is configured
OverrideRun == branchName = "production" /\ envDefault # ""

IsPipelineStep(e) == e.op \in PipelineSteps

PipelineLog == SelectSeq(log, IsPipelineStep)

\* the place of a step in the order of section 4.4
Rank(op) ==
    CASE op = "clone" -> 1
      [] op = "fetch" -> 2
      [] op = "branchExist" -> 3
      [] op \in { "checkoutExisting", "checkoutNew" } -> 4
      [] op = "readFile" -> 5
      [] op = "writeFile" -> 6
      [] op = "commit" -> 7
      [] op = "push" -> 8
      [] op = "runJob" -> 9

-----------------------------------------------------------------------------
(* The claims *)

\* C1: once the push gate is passed, GU.push has been executed if and only
\* if commitNeeded or fullDeploymentNeeded is true.
C1_PushIffNeeded ==
    PastPushGate =>
        (Invoked("push") <=> (commitNeeded \/ fullDeploymentNeeded))

\* C1, witness: the push ran for the full deployment alone (no commit), and
\* the job is about to be launched.
C1_Witness ==
    /\ pc = "runJob"
    /\ Succeeded("push")
    /\ fullDeploymentNeeded
    /\ ~ commitNeeded

\* C2, as stated: commitNeeded implies that the Puppetfile was modified in
\* this run, and GU.commit is never invoked in a run that did not modify it.
C2_Original ==
    /\ commitNeeded => ManifestModified
    /\ Invoked("commit") => ManifestModified

\* C2, amended: commitNeeded implies that the Puppetfile was written in this
\* run or that the target branch was missing on the remote and was created by
\* this run; GU.commit is invoked in no other run.
C2_CommitNeededCause ==
    /\ commitNeeded => (ManifestWritten \/ BranchCreated)
    /\ Invoked("commit") => (ManifestWritten \/ BranchCreated)

\* C2, witness: the branch existed, a stale reference was rewritten and the
\* commit ran.
C2_Witness ==
    /\ Succeeded("commit")
    /\ branchExist
    /\ moduleDefined # 0
    /\ ManifestModified

\* C3: when the branch is missing on the remote, both flags are true when the
\* gates are evaluated, whatever the Puppetfile holds: the commit is taken,
\* and a job that is launched follows a commit and a push and has type
\* deploy_env.
C3_NewBranchForcesBoth ==
    /\ (BranchMissing /\ GatesEvaluated) =>
          /\ commitNeeded
          /\ fullDeploymentNeeded
          /\ pc = "commit" \/ Invoked("commit")
    /\ (BranchMissing /\ Invoked("runJob")) =>
          /\ Succeeded("commit")
          /\ Succeeded("push")
          /\ rundeck_type = "deploy_env"

\* C3, witness: the branch was missing, the entry of the module was already
\* right (nothing was written), and the job was launched.
C3_Witness ==
    /\ BranchMissing
    /\ Invoked("runJob")
    /\ moduleDefined # 0
    /\ ~ Invoked("writeFile")

\* C4: the job has type deploy_env exactly when the branch was missing on the
\* remote or GU.checkoutExisting reported a merge, and deploy_mod otherwise.
C4_DeployType ==
    Invoked("runJob") =>
        /\ rundeck_type \in { "deploy_env", "deploy_mod" }
        /\ rundeck_type = "deploy_env" <=> (~ branchExist \/ mergedIn)

\* C4, witness: an existing branch, a no-op merge, a rewritten Puppetfile,
\* and a job of type deploy_mod.
C4_Witness ==
    /\ Invoked("runJob")
    /\ branchExist
    /\ ~ mergedIn
    /\ ManifestModified
    /\ rundeck_type = "deploy_mod"

\* C5: when the job is launched with fullDeploymentNeeded, the target branch
\* is on the remote: it was there when checked, or a push of this run
\* succeeded before.
C5_BranchOnRemoteAtDispatch ==
    (Invoked("runJob") /\ fullDeploymentNeeded) =>
        /\ remoteBranch
        /\ branchExist \/ Succeeded("push")

\* C5, witness: the branch was missing and the job was launched after the
\* push of the new branch.
C5_Witness ==
    /\ BranchMissing
    /\ Invoked("runJob")
    /\ Succeeded("push")
    /\ fullDeploymentNeeded

\* C6: the steps run in the order clone, fetch, branch check, checkout, read,
\* write, commit, push, dispatch: each at most once, each after the success
\* of the one before, none of the first five left out, and the dispatch
\* after the push whenever the gate asks for a push.
C6_StepOrder ==
    /\ \A steps \in { PipelineLog } :
          /\ \A i \in 1..(Len(steps) - 1) :
                /\ Rank(steps[i].op) < Rank(steps[i + 1].op)
                /\ steps[i].ok
          /\ \A i \in 1..Len(steps) :
                i <= 5 => Rank(steps[i].op) = i
    /\ (Invoked("runJob") /\ (commitNeeded \/ fullDeploymentNeeded)) =>
          Succeeded("push")

\* C6, witness: a run that took all nine steps.
C6_Witness ==
    /\ Len(PipelineLog) = 9
    /\ Succeeded("writeFile") /\ Succeeded("commit") /\ Succeeded("push")
    /\ Succeeded("runJob")

\* C7: GU.commit runs at most once and only when commitNeeded is true,
\* GU.push at most once and only when commitNeeded or fullDeploymentNeeded
\* is true, also in the runs that fail later.
C7_CommitPushAtMostOnce ==
    /\ Count("commit") <= 1
    /\ Count("push") <= 1
    /\ Invoked("commit") => commitNeeded
    /\ Invoked("push") => (commitNeeded \/ fullDeploymentNeeded)

\* C7, witness: a run that committed and pushed, failed at the dispatch and
\* reported the failure.
C7_Witness ==
    /\ pc = "done"
    /\ err = "runJob"
    /\ Count("commit") = 1
    /\ Count("push") = 1

\* C8: after the failure of a pipeline step, no pipeline step is executed.
C8_FailureAborts ==
    \A i \in 1..Len(log) :
        (log[i].op \in PipelineSteps /\ ~ log[i].ok) =>
            \A j \in (i + 1)..Len(log) : log[j].op \notin PipelineSteps

\* C8, witness: the commit failed and the run ended with the failure report.
C8_Witness ==
    /\ pc = "done"
    /\ err = "commit"
    /\ cbkCalls = << "commit" >>

\* C9, as stated: a run that has ended has attempted the removal of its
\* workspace.
C9_CleanupBeforeEnd == Ended => Invoked("remove")

\* C10, as stated: when a pipeline step failed, the run that has ended has
\* reported the error of that step to the caller, also when the cleanup
\* failed.
C10_OriginalErrorReported ==
    (Ended /\ err \in PipelineSteps) =>
        \E i \in 1..Len(cbkCalls) : cbkCalls[i] = err

\* C11, as stated: a run that has ended has called cbk exactly once, and no
\* run calls it twice.
C11_CallbackExactlyOnce ==
    /\ Len(cbkCalls) <= 1
    /\ Ended => Len(cbkCalls) = 1

\* C12, as stated: a success is reported only when the dispatcher returned a
\* success status, and the run that reports its outcome after the dispatcher
\* failed or returned another status reports an error.
C12_DispatcherFailureReported ==
    /\ \A i \in 1..Len(cbkCalls) :
          cbkCalls[i] = "null" => rd_job_status = "succeeded"
    /\ (pc = "done" /\ Invoked("runJob") /\ rd_job_status # "succeeded") =>
          \E i \in 1..Len(cbkCalls) : cbkCalls[i] # "null"

\* C13, as stated: two runs that are in progress at the same time have
\* different workspace directories.
C13_DistinctWorkspaces ==
    \A r1, r2 \in Runs :
        (r1 # r2 /\ InProgress(r1) /\ InProgress(r2)) =>
            runs[r1].gitdir # runs[r2].gitdir

\* C14, as stated: when the Puppetfile read holds no entry for repoUrl, the
\* run writes the text read followed by the one entry (moduleName, repoUrl,
\* branchName) and sets commitNeeded.
C14_AppendWhenAbsent ==
    (Succeeded("readFile") /\ ~ HasEntryFor(content, repoUrl)) =>
        /\ new_content =
              Append(content, [ mod |-> moduleName, git |-> repoUrl,
                                ref |-> branchName ])
        /\ pc = "writeFile" \/ Invoked("writeFile")
        /\ Succeeded("writeFile") => (pfile = new_content /\ commitNeeded)

C16_OnlyFirstRefRewritten ==
    (Succeeded("writeFile") /\ moduleDefined # 0) =>
        /\ Len(pfile) = Len(content)
        /\ \A i \in 1..Len(content) :
              pfile[i] = IF i = moduleDefined
                         THEN [ content[i] EXCEPT !.ref = branchName ]
                         ELSE content[i]

\* C17, as stated: the entry taken for the module's is an entry of repoUrl,
\* and an entry of another URL is never rewritten.
C17_OnlyOwnEntryMatched ==
    /\ (Succeeded("readFile") /\ moduleDefined # 0) =>
          content[moduleDefined].git = repoUrl
    /\ Succeeded("writeFile") =>
          \A i \in 1..Len(content) :
              content[i].git # repoUrl => pfile[i] = content[i]

\* C18, as stated: the second run of an event, after a first run that
\* reported success and with no change on the remotes in between, writes
\* nothing to the Puppetfile, commits nothing and pushes nothing.
C18_SecondRunChangesNothing ==
    run = 2 =>
        /\ pc \notin { "writeFile", "commit", "push" }
        /\ ~ Invoked("writeFile")
        /\ ~ Invoked("commit")
        /\ ~ Invoked("push")

\* C19, as stated: in a run for production with an override, the reference
\* of the entry is compared with the override name only (an entry pointing at
\* the literal production is a mismatch) and every reference written is the
\* override name.
C19_Original ==
    OverrideRun =>
        /\ ( /\ Succeeded("readFile")
             /\ moduleDefined # 0
             /\ content[moduleDefined].ref = "production" )
           => (pc = "writeFile" \/ Invoked("writeFile"))
        /\ Succeeded("writeFile") =>
              \A i \in 1..Len(pfile) :
                  (i > Len(content) \/ pfile[i] # content[i]) =>
                      pfile[i].ref = puppetfileBranchName

\* C19, amended: in a run for production with an override, the entry is left
\* alone exactly when the reference of the first matching entry is the
\* override name or the literal production; every reference written (the
\* appended entry, the reference of each matched entry) is the literal
\* production, never the override name.
C19_OverrideComparedLiteralWritten ==
    OverrideRun =>
        /\ (Succeeded("readFile") /\ moduleDefined # 0) =>
              ( (pc = "writeFile" \/ Invoked("writeFile"))
                <=> content[moduleDefined].ref
                       \notin { puppetfileBranchName, "production" } )
        /\ Succeeded("writeFile") =>
              /\ \A i \in 1..Len(pfile) :
                    (i > Len(content) \/ module_regex(repoUrl, content[i])) =>
                        pfile[i].ref = "production"
              /\ \A i \in 1..Len(content) :
                    pfile[i].ref = puppetfileBranchName =>
                        pfile[i] = content[i]

\* C19, witness: a run for production with the override master rewrote a
\* reference that pointed at a feature branch.
C19_Witness ==
    /\ OverrideRun
    /\ Succeeded("writeFile")
    /\ moduleDefined # 0
    /\ content[moduleDefined].ref = "feature"
    /\ pfile[moduleDefined].ref = "production"

\* C20: when the job is launched in a run that wrote the Puppetfile, a commit
\* and after it a push have succeeded before.
C20_WrittenIsPushedBeforeDispatch ==
    (ManifestWritten /\ Invoked("runJob")) =>
        \E i \in 1..Len(log) :
            /\ log[i].op = "commit" /\ log[i].ok
            /\ \E j \in (i + 1)..Len(log) :
                  /\ log[j].op = "push" /\ log[j].ok
                  /\ \E k \in (j + 1)..Len(log) : log[k].op = "runJob"

\* C20, witness: the write was the only reason to commit and to push (the
\* branch existed, nothing was merged), and the job was launched.
C20_Witness ==
    /\ ManifestWritten
    /\ Invoked("runJob")
    /\ branchExist
    /\ ~ mergedIn

=============================================================================
